---- MODULE Spec2Model ----
(***************************************************************************)
(* A model of cffadb's FootballDB (src/dbinterface.py): the Games,         *)
(* Payments, Adjustments, teamPlayers and teamSummary collections and the  *)
(* operations that keep the per-player summary consistent with them:       *)
(* calc_populate_team_summary, add_game, edit_game, delete_game and        *)
(* add_transaction.                                                        *)
(*                                                                         *)
(* Money.  The code computes with Decimal128 values converted to Python    *)
(* floats.  The model keeps every amount as an integer number of           *)
(* 1/Unit-ths of a currency unit, Unit being a common multiple of 100 and  *)
(* of every possible "Players" count, so cost / Players is exact.  Binary  *)
(* floating point rounding is therefore NOT modelled: arithmetic is that   *)
(* of the rationals, and round(x, 2) rounds a rational to hundredths.      *)
(*                                                                         *)
(* Collation.  Queries given collation=aggCollation (strength 1) compare   *)
(* string VALUES case-insensitively; field NAMES, Python dict lookups and  *)
(* queries without a collation compare exactly.  Fold is the collation     *)
(* key.                                                                    *)
(***************************************************************************)
EXTENDS Integers, Sequences, FiniteSets, TLC

VARIABLES
    games,        \* the Games collection: a set of game documents
    payments,     \* the Payments collection, in insertion (natural) order
    adjustments,  \* the Adjustments collection: player name -> adjust
    teamSummary,  \* the teamSummary (PlayerSummary) collection, in natural order
    teamPlayers,  \* the teamPlayers collection: player names, in natural order
    nextId,       \* the next game _id the store hands out
    ops,          \* number of calls made so far
    last,         \* history: the last call, its result and the store before it
    payGame,      \* history: for each payment, the game whose call inserted it
    ledger,       \* the player and the result of the last calc_ledger_for_player
    pending,      \* the calc_populate_team_summary call between drop and insert_many
    racing        \* the edit_game and delete_game calls of two concurrent requests

vars == <<games, payments, adjustments, teamSummary, teamPlayers, nextId,
          ops, last, payGame, ledger, pending, racing>>

(***************************************************************************)
(* Bounds of the model.                                                    *)
(***************************************************************************)
MaxOps == 2

\* Player names a form or a transaction may carry.  "al" is a case variant
\* of "Al": equal under aggCollation, different as a key.
Names == {"Al", "al", "Bo"}

\* The value Python's dict.get gives for a missing key.
None == "<None>"

\* datetime.datetime(1970, 1, 1): lastPlayed of a player with no game.
Epoch == 0 - 1
\* datetime.datetime(2010, 1, 1): the date of the adjustment's ledger entry,
\* before every game and payment date.
AdjustDate == 0
Dates == {1, 2}
\* datetime.datetime.now(): later than every game date of this model.
Today == 1 + CHOOSE m \in Dates : \A e \in Dates : e <= m

RECURSIVE Gcd(_, _)
Gcd(a, b) == IF b = 0 THEN a ELSE Gcd(b, a % b)

RECURSIVE LcmUpTo(_)
LcmUpTo(n) == IF n <= 1 THEN 1 ELSE LET l == LcmUpTo(n - 1) IN (l * n) \div Gcd(l, n)

\* The guests a hosting player of the model's forms brings.
GuestCount == 2

\* Most attendance units a form can describe: every name playing with guests.
MaxUnits == Cardinality(Names) * (1 + GuestCount)

\* One hundredth of a currency unit, the precision round(x, 2) keeps.
Cent == LcmUpTo(MaxUnits)

\* One currency unit, in the model's money (see the header).
Unit == 100 * Cent

\* Amounts of the transactions the model submits.
TxnAmounts == {15 * Unit}

(***************************************************************************)
(* aggCollation = Collation(locale='en', strength=1, alternate='shifted'): *)
(* the comparison key of a string value.                                   *)
(***************************************************************************)
Fold(s) ==
    CASE s = "Al" -> "al"
      [] s = "Bo" -> "bo"
      [] s = "Win" -> "win"
      [] s = "Lose" -> "lose"
      [] s = "Draw" -> "draw"
      [] s = "No Show" -> "no show"
      [] s = "No Play" -> "no play"
      [] OTHER -> s

\* {player: {"$in": ["Win", "Lose", "Draw", "No Show"]}} under aggCollation.
AttendedQuery == {"Win", "Lose", "Draw", "No Show"}

IsAttended(marker) == \E m \in AttendedQuery : Fold(m) = Fold(marker)

\* The sum of f[e] over the elements e of S.
RECURSIVE SumOver(_, _)
SumOver(S, f) ==
    IF S = {} THEN 0
    ELSE LET e == CHOOSE e \in S : TRUE IN f[e] + SumOver(S \ {e}, f)

RECURSIVE SeqSum(_)
SeqSum(s) == IF s = <<>> THEN 0 ELSE Head(s) + SeqSum(Tail(s))

MaxOf(S) == CHOOSE m \in S : \A e \in S : e <= m

(***************************************************************************)
(* Documents.                                                              *)
(*   game:    [id, date, cost, players, costEach, booker, marks, guests,   *)
(*             playerList]; marks[n] is the value under key n ("" when the *)
(*             key is absent), guests[n] the value under key n_guests (0   *)
(*             when absent), booker is None when the Booker key is absent. *)
(*   payment: [Player, Type, Amount, Date]                                 *)
(*   summary: [playerName, gamesAttended, lastPlayed, gamesCost,           *)
(*             moniespaid, balance]                                        *)
(***************************************************************************)
NoMarks == [n \in Names |-> ""]
NoGuests == [n \in Names |-> 0]

\* float(x.get("Cost of Game").to_decimal()) / float(x.get("Players"))
GameCostEach(g) == g.cost \div g.players

\* self.games.find({player: {"$in": [...]}}, collation=aggCollation)
GamesPlayed(player, gs) == {g \in gs : IsAttended(g.marks[player])}

\* self.games.find({player + "_guests": {"$exists": 1}})
GamesHosted(player, gs) == {g \in gs : g.guests[player] > 0}

\* A variant of total_cost that charges a player's own games only.
TotalCostPlayedOnly(player, gs) ==
    LET played == GamesPlayed(player, gs)
    IN  SumOver(played, [g \in played |-> GameCostEach(g)])

\* total_cost of calc_populate_team_summary: the player's own games, then
\* the guests the player hosted.
TotalCost(player, gs) ==
    LET played == GamesPlayed(player, gs)
        hosted == GamesHosted(player, gs)
    IN  SumOver(played, [g \in played |-> GameCostEach(g)])
        + SumOver(hosted, [g \in hosted |-> g.guests[player] * GameCostEach(g)])

\* self.adjustments.find_one({"name": player})["adjust"], 0.00 on TypeError.
AdjustAmount(player, adj) ==
    IF player \in DOMAIN adj THEN adj[player] ELSE 0

\* A variant of the last played date that takes the oldest game.
LastPlayedDateOldest(player, gs) ==
    LET played == GamesPlayed(player, gs)
    IN  IF played = {} THEN Epoch
        ELSE CHOOSE d \in {g.date : g \in played} :
                 \A g \in played : d <= g.date

\* The newest "Date of Game" among the player's games, else 1970-01-01.
LastPlayedDate(player, gs) ==
    LET played == GamesPlayed(player, gs)
    IN  IF played = {} THEN Epoch ELSE MaxOf({g.date : g \in played})

\* Indices of the payments of one $group bucket: "$Player" equal under
\* aggCollation.
GroupOf(key, pays) == {i \in 1..Len(pays) : Fold(pays[i].Player) = key}

\* get_aggregated_payments: one entry per bucket, keyed by the Player value
\* of the bucket's first document, holding the bucket's sum.
AggregatedPayments(pays) ==
    LET firsts == {i \in 1..Len(pays) :
                      \A j \in 1..(i - 1) : Fold(pays[j].Player) # Fold(pays[i].Player)}
        idx(k) == CHOOSE i \in firsts : pays[i].Player = k
    IN  [k \in {pays[i].Player : i \in firsts} |->
            LET grp == GroupOf(Fold(pays[idx(k)].Player), pays)
            IN  SumOver(grp, [i \in grp |-> pays[i].Amount])]

\* aggregated_payments.get(player, Decimal128("0.00"))
PaidOf(player, agg) == IF player \in DOMAIN agg THEN agg[player] ELSE 0

\* A variant of the team list element whose balance leaves the adjustment out.
SummaryRowNoAdjust(player, gs, agg, adj) ==
    [playerName    |-> player,
     gamesAttended |-> Cardinality(GamesPlayed(player, gs)),
     lastPlayed    |-> LastPlayedDate(player, gs),
     gamesCost     |-> TotalCost(player, gs),
     moniespaid    |-> PaidOf(player, agg),
     balance       |-> PaidOf(player, agg) - TotalCost(player, gs)]

\* One element of the team list built by calc_populate_team_summary.
SummaryRow(player, gs, agg, adj) ==
    [playerName    |-> player,
     gamesAttended |-> Cardinality(GamesPlayed(player, gs)),
     lastPlayed    |-> LastPlayedDate(player, gs),
     gamesCost     |-> TotalCost(player, gs),
     moniespaid    |-> PaidOf(player, agg),
     balance       |-> PaidOf(player, agg) - TotalCost(player, gs)
                         + AdjustAmount(player, adj)]

\* [player.get("playerName") for player in self.teamSummary.find({})]
SummaryNames(ts) == [i \in 1..Len(ts) |-> ts[i].playerName]

\* calc_populate_team_summary(players): the collection it leaves (the old
\* one is dropped, the new rows inserted in the order of players).
CalcTeam(players, gs, pays, adj) ==
    LET agg == AggregatedPayments(pays)
    IN  [i \in 1..Len(players) |-> SummaryRow(players[i], gs, agg, adj)]

\* A variant of the resync that leaves the collection as it finds it.
ResyncNot(ts, gs, pays, adj) == ts

\* The resync that ends edit_game and delete_game: calc_populate_team_summary
\* over the playerName of every teamSummary document.
Resync(ts, gs, pays, adj) == CalcTeam(SummaryNames(ts), gs, pays, adj)

\* insert_many([]) raises InvalidOperation, which nothing catches.
CalcRaises(players) == players = <<>>

(***************************************************************************)
(* teamSummary / teamPlayers helpers.                                      *)
(***************************************************************************)
\* Index of the document teamSummary.find_one({"playerName": name},
\* collation=aggCollation) returns: the first one equal under the
\* collation; 0 for None.
FindCollated(ts, name) ==
    LET hits == {i \in 1..Len(ts) : Fold(ts[i].playerName) = Fold(name)}
    IN  IF hits = {} THEN 0 ELSE CHOOSE i \in hits : \A j \in hits : i <= j

\* Index of the document a filter {"playerName": name} without collation
\* selects (update_one, find_one): the first exact match; 0 for none.
FindExact(ts, name) ==
    LET hits == {i \in 1..Len(ts) : ts[i].playerName = name}
    IN  IF hits = {} THEN 0 ELSE CHOOSE i \in hits : \A j \in hits : i <= j

\* player_exists(player_name)
PlayerExists(ts, name) == FindExact(ts, name) # 0

\* The zeroed teamSummary document add_player inserts.
NewSummaryRow(name) ==
    [playerName |-> name, gamesAttended |-> 0, lastPlayed |-> Epoch,
     gamesCost |-> 0, moniespaid |-> 0, balance |-> 0]

\* add_player(player) on a store st = [ts, tp, pay]: nothing when the name is
\* already among get_player_labels(), else one teamPlayers and one
\* teamSummary document.
AddPlayer(st, name) ==
    IF \E i \in 1..Len(st.ts) : st.ts[i].playerName = name
    THEN st
    ELSE [st EXCEPT !.tp = Append(@, name),
                    !.ts = Append(@, NewSummaryRow(name))]

\* The "first check if any player is new" block of add_game and edit_game:
\* the store after it.
EnsurePlayer(st, name) ==
    IF FindCollated(st.ts, name) = 0 /\ name # "" THEN AddPlayer(st, name) ELSE st

\* add_player when the store loses the insert into teamSummary: the
\* teamPlayers document is there, the teamSummary document is not.
AddPlayerLost(st, name) ==
    IF \E i \in 1..Len(st.ts) : st.ts[i].playerName = name
    THEN st
    ELSE [st EXCEPT !.tp = Append(@, name)]

\* The same block when the store loses the teamSummary inserts of the names
\* in lost.
EnsurePlayerLosing(st, name, lost) ==
    IF name \in lost
    THEN IF FindCollated(st.ts, name) = 0 /\ name # ""
         THEN AddPlayerLost(st, name) ELSE st
    ELSE EnsurePlayer(st, name)

(***************************************************************************)
(* Forms.  A form is what footballClasses.Game carries: gamecost,          *)
(* gamedate, booker and playerlist, a sequence of                          *)
(* [playername, playedlastgame, guests, pitchbooker].                      *)
(***************************************************************************)
\* total_players_this_game
FormUnits(form) ==
    SeqSum([i \in 1..Len(form.playerlist) |->
               (IF form.playerlist[i].playedlastgame THEN 1 ELSE 0)
               + form.playerlist[i].guests])

\* The entries of team_string the loop appends for one player.
TeamTokens(p) ==
    (IF p.playedlastgame THEN <<[name |-> p.playername, guests |-> 0]>> ELSE <<>>)
    \o (IF p.guests > 0 THEN <<[name |-> p.playername, guests |-> p.guests]>> ELSE <<>>)

RECURSIVE TeamString(_)
TeamString(pl) == IF pl = <<>> THEN <<>> ELSE TeamTokens(Head(pl)) \o TeamString(Tail(pl))

\* Applying, in order, the per-player writes of a playerlist to a document.
RECURSIVE AddMarks(_, _)
AddMarks(marks, pl) ==
    IF pl = <<>> THEN marks
    ELSE AddMarks(IF Head(pl).playedlastgame
                  THEN [marks EXCEPT ![Head(pl).playername] = "Draw"]
                  ELSE marks, Tail(pl))

RECURSIVE AddGuests(_, _)
AddGuests(guests, pl) ==
    IF pl = <<>> THEN guests
    ELSE AddGuests(IF Head(pl).guests > 0
                   THEN [guests EXCEPT ![Head(pl).playername] = Head(pl).guests]
                   ELSE guests, Tail(pl))

\* The game_record add_game inserts.
NewGameRecord(id, form) ==
    [id         |-> id,
     date       |-> form.gamedate,
     cost       |-> form.gamecost,
     players    |-> FormUnits(form),
     costEach   |-> form.gamecost \div FormUnits(form),
     booker     |-> form.booker,
     marks      |-> AddMarks(NoMarks, form.playerlist),
     guests     |-> AddGuests(NoGuests, form.playerlist),
     playerList |-> TeamString(form.playerlist),
     cffa       |-> "submitted"]

\* update_one({"playerName": name}, {"$set": fields}): the first exact match
\* gets the fields of doc named in keys.
UpdateOne(ts, name, doc, keys) ==
    LET i == FindExact(ts, name)
    IN  IF i = 0 THEN ts
        ELSE [ts EXCEPT ![i] =
                 [k \in DOMAIN ts[i] |-> IF k \in keys THEN doc[k] ELSE ts[i][k]]]

\* A variant of the loop body whose pitchbooker block starts again from the
\* balance the lookup found, losing the played block's charge.
PatchPlayerFromLookup(st, p, form, costEach) ==
    LET doc0 == st.ts[FindCollated(st.ts, p.playername)]
        doc1 == IF p.playedlastgame
                THEN [doc0 EXCEPT !.gamesCost = @ + costEach,
                                  !.balance = @ - costEach,
                                  !.lastPlayed = form.gamedate,
                                  !.gamesAttended = @ + 1]
                ELSE doc0
        ts1  == IF p.playedlastgame
                THEN UpdateOne(st.ts, p.playername, doc1,
                               {"gamesCost", "balance", "lastPlayed", "gamesAttended"})
                ELSE st.ts
        doc2 == IF p.pitchbooker
                THEN [doc1 EXCEPT !.balance = doc0.balance + form.gamecost]
                ELSE doc1
        ts2  == IF p.pitchbooker
                THEN UpdateOne(ts1, p.playername, doc2, {"balance"})
                ELSE ts1
        pay2 == IF p.pitchbooker
                THEN Append(st.pay, [Player |-> p.playername,
                                     Type   |-> "CFFA Booking Credit",
                                     Amount |-> form.gamecost,
                                     Date   |-> form.gamedate])
                ELSE st.pay
        doc3 == IF p.guests > 0
                THEN [doc2 EXCEPT !.balance = @ - (costEach * p.guests)]
                ELSE doc2
        ts3  == IF p.guests > 0
                THEN UpdateOne(ts2, p.playername, doc3, {"balance"})
                ELSE ts2
    IN  [st EXCEPT !.ts = ts3, !.pay = pay2]

\* The body of add_game's second loop for one player p, on a store whose
\* player_document was found: the played, pitchbooker and guests blocks.
PatchPlayer(st, p, form, costEach) ==
    LET doc0 == st.ts[FindCollated(st.ts, p.playername)]
        doc1 == IF p.playedlastgame
                THEN [doc0 EXCEPT !.gamesCost = @ + costEach,
                                  !.balance = @ - costEach,
                                  !.lastPlayed = form.gamedate,
                                  !.gamesAttended = @ + 1]
                ELSE doc0
        ts1  == IF p.playedlastgame
                THEN UpdateOne(st.ts, p.playername, doc1,
                               {"gamesCost", "balance", "lastPlayed", "gamesAttended"})
                ELSE st.ts
        doc2 == IF p.pitchbooker
                THEN [doc1 EXCEPT !.balance = @ + form.gamecost]
                ELSE doc1
        ts2  == IF p.pitchbooker
                THEN UpdateOne(ts1, p.playername, doc2, {"balance"})
                ELSE ts1
        pay2 == IF p.pitchbooker
                THEN Append(st.pay, [Player |-> p.playername,
                                     Type   |-> "CFFA Booking Credit",
                                     Amount |-> form.gamecost,
                                     Date   |-> form.gamedate])
                ELSE st.pay
        doc3 == IF p.guests > 0
                THEN [doc2 EXCEPT !.balance = @ - (costEach * p.guests)]
                ELSE doc2
        ts3  == IF p.guests > 0
                THEN UpdateOne(ts2, p.playername, doc3, {"balance"})
                ELSE ts2
    IN  [st EXCEPT !.ts = ts3, !.pay = pay2]

\* add_game's second loop over the rest pl of the playerlist.  A player
\* the collated lookup still misses after add_player ends the call with
\* False; a blank name with a ticked box leaves player_document None and
\* is not among the forms of this model.
\* A variant of the loop that skips a player still missing after add_player
\* and carries on with the next.
RECURSIVE AddGameLoopCarryOn(_, _, _, _, _)
AddGameLoopCarryOn(st, pl, form, costEach, lost) ==
    IF pl = <<>> THEN [st EXCEPT !.ret = "True"]
    ELSE LET st1 == EnsurePlayerLosing(st, Head(pl).playername, lost)
         IN  IF FindCollated(st1.ts, Head(pl).playername) = 0
             THEN [AddGameLoopCarryOn(st1, Tail(pl), form, costEach, lost)
                     EXCEPT !.ret = "False"]
             ELSE AddGameLoopCarryOn(PatchPlayer(st1, Head(pl), form, costEach),
                                     Tail(pl), form, costEach, lost)

RECURSIVE AddGameLoopLosing(_, _, _, _, _)
AddGameLoopLosing(st, pl, form, costEach, lost) ==
    IF pl = <<>> THEN [st EXCEPT !.ret = "True"]
    ELSE LET st1 == EnsurePlayerLosing(st, Head(pl).playername, lost)
         IN  IF FindCollated(st1.ts, Head(pl).playername) = 0
             THEN [st1 EXCEPT !.ret = "False"]
             ELSE AddGameLoopLosing(PatchPlayer(st1, Head(pl), form, costEach),
                                    Tail(pl), form, costEach, lost)

\* The loop over a store that loses no insert.
AddGameLoop(st, pl, form, costEach) ==
    AddGameLoopLosing(st, pl, form, costEach, {})

(***************************************************************************)
(* edit_game.                                                              *)
(***************************************************************************)
\* The literal list edit_game compares a key's value with (no collation).
PurgeMarkers == {"Win", "win", "Draw", "draw", "Lose", "lose", "no show",
                 "No Show", "no play", "No Play"}

\* The first loop of edit_game on the keys of game_record: a ticked player
\* gets "Draw", an unticked one is popped.
RECURSIVE EditMarks(_, _)
EditMarks(marks, pl) ==
    IF pl = <<>> THEN marks
    ELSE EditMarks([marks EXCEPT ![Head(pl).playername] =
                       IF Head(pl).playedlastgame THEN "Draw" ELSE ""],
                   Tail(pl))

RECURSIVE EditGuests(_, _)
EditGuests(guests, pl) ==
    IF pl = <<>> THEN guests
    ELSE EditGuests([guests EXCEPT ![Head(pl).playername] = Head(pl).guests],
                    Tail(pl))

\* A variant of keys_to_pop that pops nothing.
PurgeKeysNone(marks, teamString) == marks

\* keys_to_pop: every key holding one of PurgeMarkers that is not an entry
\* of team_string is popped.
PurgeKeys(marks, teamString) ==
    [n \in DOMAIN marks |->
        IF marks[n] \in PurgeMarkers
           /\ ~(\E i \in 1..Len(teamString) :
                    teamString[i].guests = 0 /\ teamString[i].name = n)
        THEN "" ELSE marks[n]]

\* The game_record edit_game reinserts for the stored document g.
EditedGameRecord(g, form) ==
    [id         |-> g.id,
     date       |-> form.gamedate,
     cost       |-> form.gamecost,
     players    |-> FormUnits(form),
     costEach   |-> form.gamecost \div FormUnits(form),
     booker     |-> form.booker,
     marks      |-> PurgeKeys(EditMarks(g.marks, form.playerlist),
                              TeamString(form.playerlist)),
     guests     |-> EditGuests(g.guests, form.playerlist),
     playerList |-> TeamString(form.playerlist),
     cffa       |-> "edited"]

\* The first loop of edit_game on the store: unknown players are created;
\* ok is FALSE when one is still missing afterwards (return False).
RECURSIVE EditEnsureLoopLosing(_, _, _)
EditEnsureLoopLosing(st, pl, lost) ==
    IF pl = <<>> THEN [st EXCEPT !.ret = "True"]
    ELSE LET st1 == EnsurePlayerLosing(st, Head(pl).playername, lost)
         IN  IF FindCollated(st1.ts, Head(pl).playername) = 0
             THEN [st1 EXCEPT !.ret = "False"]
             ELSE EditEnsureLoopLosing(st1, Tail(pl), lost)

\* The loop over a store that loses no insert.
EditEnsureLoop(st, pl) == EditEnsureLoopLosing(st, pl, {})

\* Whether edit_game records compensating payments.
EditCompensates(g, form) == g.booker # form.booker \/ g.cost # form.gamecost

\* The transaction removing the original booker's credit.
EditRemovePayment(g) ==
    [Player |-> g.booker, Type |-> "CFFA Game Edit - remove original game credit",
     Amount |-> 0 - g.cost, Date |-> Today]

\* The transaction crediting the (new or same) booker.
EditAddPayment(form) ==
    [Player |-> form.booker, Type |-> "CFFA Game Edit - add new game credit",
     Amount |-> form.gamecost, Date |-> Today]

(***************************************************************************)
(* delete_game.                                                            *)
(***************************************************************************)
\* "Booker" in game_document
HasBookerKey(g) == g.booker # None

\* A variant of delete_game's transaction_document that repeats the credit.
DeletePaymentCredit(g) ==
    [Player |-> g.booker, Type |-> "CFFA Game Deletion - game credit",
     Amount |-> g.cost, Date |-> Today]

\* The transaction_document delete_game inserts.
DeletePayment(g) ==
    IF HasBookerKey(g)
    THEN [Player |-> g.booker, Type |-> "CFFA Game Deletion - game credit",
          Amount |-> 0 - g.cost, Date |-> Today]
    ELSE [Player |-> g.booker, Type |-> "CFFA Game Deletion - no booker set",
          Amount |-> 0, Date |-> Today]

\* delete_message
DeleteMessage(g) ==
    IF HasBookerKey(g) THEN "deleted and transactions adjusted"
    ELSE "Warning: Game had no booker"

(***************************************************************************)
(* The forms and transactions the model submits.                           *)
(***************************************************************************)
\* One playerlist entry, as footballClasses.Player carries it.
Entry(name, played, guests, pitch) ==
    [playername |-> name, playedlastgame |-> played, guests |-> guests,
     pitchbooker |-> pitch]

\* The rosters of the model, as (name, ticked, guests) per listed player:
\* two attendees; an attendee and a host who does not play; an attendee
\* who also brings guests; an unticked player and the other spelling of a
\* name; nobody ticked.
Rosters ==
    {<<<<"Al", TRUE, 0>>, <<"Bo", TRUE, 0>>>>,
     <<<<"Al", TRUE, 0>>, <<"Bo", FALSE, GuestCount>>>>,
     <<<<"Al", TRUE, GuestCount>>>>,
     <<<<"Bo", FALSE, 0>>, <<"al", TRUE, 0>>>>,
     <<<<"Bo", FALSE, 0>>>>}

\* The playerlist of roster r with the pitchbooker box ticked for flagged.
FormPlayers(r, flagged) ==
    [i \in 1..Len(r) |-> Entry(r[i][1], r[i][2], r[i][3], r[i][1] = flagged)]

\* How a form names the booker: nobody; the last listed player, box ticked
\* and field filled; the box ticked and the field left "" as
\* get_defaults_for_new_game builds it.
BookerModes == {"nobody", "named", "box only"}

FormOf(fx, r, mode) ==
    LET who == r[Len(r)][1]
    IN  [gamecost   |-> fx.gamecost,
         gamedate   |-> fx.gamedate,
         booker     |-> IF mode = "named" THEN who ELSE "",
         playerlist |-> FormPlayers(r, IF mode = "nobody" THEN "" ELSE who)]

\* Cost and date of the games the forms describe.
Fixtures == {[gamecost |-> 30 * Unit, gamedate |-> 1],
             [gamecost |-> 20 * Unit, gamedate |-> 2]}

\* The fixtures and booker modes the forms combine: the dearer game with
\* nobody or a named booker, the cheaper with a named booker or the box only.
Bookings ==
    {b \in Fixtures \X BookerModes :
        IF b[1].gamedate = 1 THEN b[2] # "box only" ELSE b[2] # "nobody"}

Forms == {FormOf(b[1], r, b[2]) : b \in Bookings, r \in Rosters}

NoForm == [gamecost |-> 0, gamedate |-> 0, booker |-> "", playerlist |-> <<>>]

(***************************************************************************)
(* The initial store.  The database outlives the program: a FootballDB is  *)
(* constructed over a new, empty tenancy or over one the spreadsheet       *)
(* import has populated (populate_games, populate_payments,                *)
(* populate_adjustments, populate_team_players and then                    *)
(* calc_populate_team_summary over the sheet's players).                   *)
(***************************************************************************)
ImportedPlayers == <<"Al", "Bo">>

\* An imported game: no Booker key, and the sheet's own spelling of the
\* result under the key of the player who took part.
ImportedGame ==
    [id         |-> 0,
     date       |-> 1,
     cost       |-> 20 * Unit,
     players    |-> 1,
     costEach   |-> 20 * Unit,
     booker     |-> None,
     marks      |-> [n \in Names |-> IF n = "Bo" THEN "win" ELSE ""],
     guests     |-> NoGuests,
     playerList |-> <<[name |-> "Bo", guests |-> 0]>>,
     cffa       |-> "imported"]

ImportedPayments ==
    <<[Player |-> "Bo", Type |-> "Payment", Amount |-> 15 * Unit, Date |-> 1]>>

ImportedAdjustments == [n \in {"Al"} |-> 10 * Unit]

NoAdjustments == [n \in {} |-> 0]

NoCall == [op |-> "none", id |-> 0, ret |-> "", form |-> NoForm,
           games |-> {}, pay |-> <<>>, ts |-> <<>>, tp |-> <<>>,
           name |-> "", to |-> ""]

\* ledger before any calc_ledger_for_player call: sorted is sorted_ledger as
\* sorted(ledger, key=date) builds it, walked is sorted_ledger after the
\* walk and the placeholder, entries is the list returned.
NoLedger == [player |-> "", sorted |-> <<>>, walked |-> <<>>, entries |-> <<>>]

\* pending when no calc_populate_team_summary call is between its drop and
\* its insert_many; otherwise players is the list passed in and team the
\* list built for insert_many.
NoRecalc == [pc |-> "idle", players |-> <<>>, team |-> <<>>]

\* The concurrent requests, and racing when none of them has made a call:
\* before holds the names of teamSummary when the first call began; of each
\* call, op is the method, players the list it read from teamSummary, team
\* the list it built for insert_many and ret what it returned.
Procs == {1, 2}

NoRun == [pc |-> "idle", op |-> "", players |-> <<>>, team |-> <<>>, ret |-> ""]

NoRace == [before |-> <<>>, call |-> [p \in Procs |-> NoRun]]

\* payGame[i] of a payment no game call inserted.
NoGame == 0 - 1

ImportedSummary ==
    CalcTeam(ImportedPlayers, {ImportedGame}, ImportedPayments, ImportedAdjustments)

InitEmpty ==
    /\ games = {}
    /\ payments = <<>>
    /\ adjustments = NoAdjustments
    /\ teamSummary = <<>>
    /\ teamPlayers = <<>>
    /\ nextId = 1

InitImported ==
    /\ games = {ImportedGame}
    /\ payments = ImportedPayments
    /\ adjustments = ImportedAdjustments
    /\ teamPlayers = ImportedPlayers
    /\ teamSummary = ImportedSummary
    /\ nextId = 1

\* The game an earlier session added to the imported tenancy: its one
\* attendee, typed in the other spelling of an imported name, booked it.
EarlierForm ==
    FormOf([gamecost |-> 30 * Unit, gamedate |-> 1],
           <<<<"Bo", FALSE, 0>>, <<"al", TRUE, 0>>>>, "named")

\* The imported tenancy after add_game(EarlierForm).
InitEarlierGame ==
    LET g  == NewGameRecord(1, EarlierForm)
        st == AddGameLoop([ts |-> ImportedSummary, tp |-> ImportedPlayers,
                           pay |-> ImportedPayments, ret |-> ""],
                          EarlierForm.playerlist, EarlierForm, g.costEach)
    IN  /\ games = {ImportedGame, g}
        /\ payments = st.pay
        /\ adjustments = ImportedAdjustments
        /\ teamPlayers = st.tp
        /\ teamSummary = st.ts
        /\ nextId = 2

\* payGame is history: the id of the game whose add_game, edit_game or
\* delete_game call inserted payments[i], NoGame for any other payment.
Init ==
    /\ InitEmpty \/ InitImported \/ InitEarlierGame
    /\ payGame = [i \in 1..Len(payments) |->
                      IF payments[i].Type = "Payment" THEN NoGame ELSE 1]
    /\ ops = 0
    /\ last = NoCall
    /\ ledger = NoLedger
    /\ pending = NoRecalc
    /\ racing = NoRace

\* payGame after a call for game id left the payments pays.
PaidFor(id, pays) ==
    [i \in 1..Len(pays) |-> IF i <= Len(payGame) THEN payGame[i] ELSE id]

\* Every call counts towards the bound of the model.
Counted == ops < MaxOps /\ ops' = ops + 1

\* The history of a call: what was called, what it returned ("raise" for
\* an uncaught exception) and the store it found.
Called(op, id, ret, form) ==
    last' = [op |-> op, id |-> id, ret |-> ret, form |-> form,
             games |-> games, pay |-> payments, ts |-> teamSummary,
             tp |-> teamPlayers, name |-> "", to |-> ""]

\* The history of a call about a player: name is the player it names, to
\* the name edit_player gives the player.
CalledFor(op, ret, name, to) ==
    last' = [op |-> op, id |-> 0, ret |-> ret, form |-> NoForm,
             games |-> games, pay |-> payments, ts |-> teamSummary,
             tp |-> teamPlayers, name |-> name, to |-> to]

Store == [ts |-> teamSummary, tp |-> teamPlayers, pay |-> payments, ret |-> ""]

\* A variant of calc_populate_team_summary without the drop of teamSummary:
\* the new rows join the old ones.
CalcPopulateNoDrop ==
    LET players == SummaryNames(teamSummary)
    IN  /\ Counted
        /\ teamSummary' = teamSummary \o CalcTeam(players, games, payments, adjustments)
        /\ Called("calc", 0, IF CalcRaises(players) THEN "raise" ELSE "None", NoForm)
        /\ UNCHANGED <<games, payments, adjustments, teamPlayers, nextId, payGame,
                     ledger, pending, racing>>

(***************************************************************************)
(* calc_populate_team_summary(players), called with every name of          *)
(* teamSummary as edit_game and delete_game call it.                       *)
(***************************************************************************)
CalcPopulateTeamSummary ==
    LET players == SummaryNames(teamSummary)
    IN  /\ Counted
        /\ teamSummary' = CalcTeam(players, games, payments, adjustments)
        /\ Called("calc", 0, IF CalcRaises(players) THEN "raise" ELSE "None", NoForm)
        /\ UNCHANGED <<games, payments, adjustments, teamPlayers, nextId, payGame,
                     ledger, pending, racing>>

(***************************************************************************)
(* add_game(new_game)                                                      *)
(***************************************************************************)
AddGameLosing(form, lost) ==
    /\ Counted
    /\ IF FormUnits(form) = 0
       THEN \* ZeroDivisionError at cost_each, before games.insert
            /\ Called("add_game", nextId, "raise", form)
            /\ UNCHANGED <<games, payments, adjustments, teamSummary,
                           teamPlayers, nextId, payGame, ledger, pending, racing>>
       ELSE LET g  == NewGameRecord(nextId, form)
                st == AddGameLoopLosing(Store, form.playerlist, form,
                                        g.costEach, lost)
            IN  /\ games' = games \cup {g}
                /\ nextId' = nextId + 1
                /\ teamSummary' = st.ts
                /\ teamPlayers' = st.tp
                /\ payments' = st.pay
                /\ payGame' = PaidFor(nextId, st.pay)
                /\ Called("add_game", nextId, st.ret, form)
                /\ UNCHANGED <<adjustments, ledger, pending, racing>>

\* add_game over a store that loses no insert.
AddGame(form) == AddGameLosing(form, {})

(***************************************************************************)
(* edit_game(db_id, edit_game_form)                                        *)
(***************************************************************************)
EditGameLosing(id, form, lost) ==
    /\ Counted
    /\ UNCHANGED <<adjustments, nextId, ledger, pending, racing>>
    /\ IF ~(\E g \in games : g.id = id)
       THEN \* game_record is None: TypeError at the first assignment
            /\ Called("edit_game", id, "raise", NoForm)
            /\ UNCHANGED <<games, payments, teamSummary, teamPlayers>>
       ELSE LET g   == CHOOSE x \in games : x.id = id
                st  == EditEnsureLoopLosing(Store, form.playerlist, lost)
                new == EditedGameRecord(g, form)
                pay1 == IF EditCompensates(g, form)
                        THEN Append(st.pay, EditRemovePayment(g)) ELSE st.pay
                pay2 == IF EditCompensates(g, form)
                        THEN Append(pay1, EditAddPayment(form)) ELSE pay1
                players == SummaryNames(st.ts)
            IN  /\ teamPlayers' = st.tp
                /\ IF st.ret = "False"
                   THEN /\ Called("edit_game", id, "False", form)
                        /\ teamSummary' = st.ts
                        /\ UNCHANGED <<games, payments>>
                   ELSE IF FormUnits(form) = 0
                   THEN \* ZeroDivisionError at cost_each, after the loop
                        /\ Called("edit_game", id, "raise", form)
                        /\ teamSummary' = st.ts
                        /\ UNCHANGED <<games, payments>>
                   ELSE IF EditCompensates(g, form) /\ ~HasBookerKey(g)
                   THEN \* TypeError: "..." + original_booker (None) in the
                        \* logger.debug after the first insert
                        /\ Called("edit_game", id, "raise", form)
                        /\ games' = (games \ {g}) \cup {new}
                        /\ payments' = pay1
                        /\ teamSummary' = st.ts
                   ELSE /\ Called("edit_game", id,
                                  IF CalcRaises(players) THEN "raise" ELSE "True", form)
                        /\ games' = (games \ {g}) \cup {new}
                        /\ payments' = pay2
                        /\ teamSummary' = Resync(st.ts, games', pay2, adjustments)
    /\ payGame' = PaidFor(id, payments')

\* edit_game over a store that loses no insert.
EditGame(id, form) == EditGameLosing(id, form, {})

(***************************************************************************)
(* delete_game(db_id)                                                      *)
(***************************************************************************)
DeleteGame(id) ==
    /\ Counted
    /\ UNCHANGED <<adjustments, teamPlayers, nextId, ledger, pending, racing>>
    /\ IF ~(\E g \in games : g.id = id)
       THEN \* game_document is None: AttributeError at game_document.get
            /\ Called("delete_game", id, "raise", NoForm)
            /\ UNCHANGED <<games, payments, teamSummary>>
       ELSE LET g == CHOOSE x \in games : x.id = id
                players == SummaryNames(teamSummary)
            IN  /\ payments' = Append(payments, DeletePayment(g))
                /\ games' = games \ {g}
                /\ teamSummary' = Resync(teamSummary, games', payments', adjustments)
                /\ Called("delete_game", id,
                          IF CalcRaises(players) THEN "raise" ELSE DeleteMessage(g),
                          NoForm)
    /\ payGame' = PaidFor(id, payments')

(***************************************************************************)
(* add_transaction(transaction)                                            *)
(***************************************************************************)
\* A variant of add_transaction that inserts the payment before it looks
\* for the player.
AddTransactionUnchecked(player, amount, date) ==
    /\ Counted
    /\ UNCHANGED <<games, adjustments, teamPlayers, nextId, ledger, pending, racing>>
    /\ payments' = Append(payments, [Player |-> player, Type |-> "Payment",
                                      Amount |-> amount, Date |-> date])
    /\ IF ~PlayerExists(teamSummary, player)
       THEN /\ CalledFor("add_transaction", "does not exist", player, "")
            /\ UNCHANGED teamSummary
       ELSE LET doc == teamSummary[FindCollated(teamSummary, player)]
                new == [doc EXCEPT !.balance = @ + amount, !.moniespaid = @ + amount]
            IN  /\ teamSummary' = UpdateOne(teamSummary, player, new,
                                            {"balance", "moniespaid"})
                /\ CalledFor("add_transaction", "Added transaction", player, "")
    /\ payGame' = PaidFor(NoGame, payments')

\* player_exists compares exactly; the summary row is then looked up under
\* the collation and updated by its exact name.
AddTransaction(player, amount, date) ==
    /\ Counted
    /\ UNCHANGED <<games, adjustments, teamPlayers, nextId, ledger, pending, racing>>
    /\ IF ~PlayerExists(teamSummary, player)
       THEN /\ CalledFor("add_transaction", "does not exist", player, "")
            /\ UNCHANGED <<payments, teamSummary>>
       ELSE LET doc == teamSummary[FindCollated(teamSummary, player)]
                new == [doc EXCEPT !.balance = @ + amount, !.moniespaid = @ + amount]
            IN  /\ payments' = Append(payments, [Player |-> player, Type |-> "Payment",
                                                  Amount |-> amount, Date |-> date])
                /\ teamSummary' = UpdateOne(teamSummary, player, new,
                                            {"balance", "moniespaid"})
                /\ CalledFor("add_transaction", "Added transaction", player, "")
    /\ payGame' = PaidFor(NoGame, payments')

(***************************************************************************)
(* add_player(player)                                                      *)
(***************************************************************************)
AddPlayerCall(name) ==
    LET st == AddPlayer(Store, name)
    IN  /\ Counted
        /\ teamPlayers' = st.tp
        /\ teamSummary' = st.ts
        /\ CalledFor("add_player",
                     IF st = Store THEN "already exists" ELSE "added", name, "")
        /\ UNCHANGED <<games, payments, adjustments, nextId, payGame, ledger,
                       pending, racing>>

(***************************************************************************)
(* edit_player(old_player_name, player)                                    *)
(***************************************************************************)
\* str.title() of a name.
Title(name) == IF name = "al" THEN "Al" ELSE name

\* The keys of one game after the rename: the value under the old name moves
\* under the new one, and so does the guest count; the name tokens of
\* PlayerList equal to the old name are replaced, the guest tokens
\* (<name>_has_<n>_guests) are compared with <old>_guests and stay; Booker is
\* not touched.
RenamedGame(g, old, new) ==
    [g EXCEPT
       !.marks = IF g.marks[old] # ""
                 THEN [g.marks EXCEPT ![old] = "", ![new] = g.marks[old]]
                 ELSE @,
       !.guests = IF g.guests[old] > 0
                  THEN [g.guests EXCEPT ![old] = 0, ![new] = g.guests[old]]
                  ELSE @,
       !.playerList = [i \in 1..Len(g.playerList) |->
                          IF g.playerList[i].name = old
                             /\ g.playerList[i].guests = 0
                          THEN [g.playerList[i] EXCEPT !.name = new]
                          ELSE g.playerList[i]]]

\* The payments pass: every transaction of the old name gets the new one.
RenamedPayments(pays, old, new) ==
    [i \in 1..Len(pays) |->
        IF pays[i].Player = old THEN [pays[i] EXCEPT !.Player = new]
        ELSE pays[i]]

EditPlayer(old_player_name, playername) ==
    LET new == Title(playername)
    IN  /\ Counted
        /\ CalledFor("edit_player",
                     IF old_player_name # new THEN "Updated CFFA database"
                     ELSE "Updated player details", old_player_name, new)
        /\ IF old_player_name # new
           THEN /\ games' = {RenamedGame(g, old_player_name, new) : g \in games}
                /\ teamSummary' =
                      [i \in 1..Len(teamSummary) |->
                          IF teamSummary[i].playerName = old_player_name
                          THEN [teamSummary[i] EXCEPT !.playerName = new]
                          ELSE teamSummary[i]]
                /\ payments' = RenamedPayments(payments, old_player_name, new)
                /\ teamPlayers' =
                      [i \in 1..Len(teamPlayers) |->
                          IF teamPlayers[i] = old_player_name THEN new
                          ELSE teamPlayers[i]]
           ELSE UNCHANGED <<games, teamSummary, payments, teamPlayers>>
        /\ UNCHANGED <<adjustments, nextId, payGame, ledger, pending, racing>>

\* The ids a caller may pass: those of the stored games and one of no game.
GameIds == {g.id : g \in games} \cup {nextId}

\* The forms submitted with an id: any form for a stored game; one form,
\* which is never read, for the id of no game.
FormsFor(id) ==
    IF \E g \in games : g.id = id THEN Forms ELSE {CHOOSE f \in Forms : TRUE}

Next ==
    \/ CalcPopulateTeamSummary
    \/ \E form \in Forms : AddGame(form)
    \/ \E id \in GameIds : \E form \in FormsFor(id) : EditGame(id, form)
    \/ \E id \in GameIds : DeleteGame(id)
    \/ \E p \in Names, a \in TxnAmounts : AddTransaction(p, a, Today)

Spec == Init /\ [][Next]_vars

\* add_game and edit_game on a new tenancy, over a store that may lose the
\* teamSummary insert of add_player for one of the names a form lists.
Losses(form) ==
    {{}} \cup {{form.playerlist[i].playername} : i \in 1..Len(form.playerlist)}

LossyInit ==
    /\ InitEmpty
    /\ payGame = <<>>
    /\ ops = 0
    /\ last = NoCall
    /\ ledger = NoLedger
    /\ pending = NoRecalc
    /\ racing = NoRace

LossyNext ==
    \/ \E form \in Forms : \E lost \in Losses(form) : AddGameLosing(form, lost)
    \/ \E id \in GameIds : \E form \in FormsFor(id) :
           \E lost \in Losses(form) : EditGameLosing(id, form, lost)

LossySpec == LossyInit /\ [][LossyNext]_vars

\* The operations above together with those on players.
PlayerNext ==
    \/ Next
    \/ \E name \in Names : AddPlayerCall(name)
    \/ \E old \in Names, name \in Names : EditPlayer(old, name)

PlayerSpec == Init /\ [][PlayerNext]_vars

(***************************************************************************)
(* calc_ledger_for_player.                                                 *)
(*   ledger entry: [date, credit, debit, balance, description]; credit,    *)
(*   debit and balance are <<>> when the field is "" and <<v>> when it     *)
(*   holds the amount v.                                                   *)
(***************************************************************************)
Blank == <<>>

LedgerEntry(date, credit, debit, balance, description) ==
    [date |-> date, credit |-> credit, debit |-> debit, balance |-> balance,
     description |-> description]

Abs(x) == IF x < 0 THEN 0 - x ELSE x

\* round(x, 2): the nearest hundredth, the even one of two equally near.
Round2(x) ==
    LET q == x \div Cent
        r == x % Cent
    IN  IF 2 * r < Cent THEN q * Cent
        ELSE IF 2 * r > Cent THEN (q + 1) * Cent
        ELSE IF q % 2 = 0 THEN q * Cent ELSE (q + 1) * Cent

\* The entry of the player's adjustment document, if there is one.
AdjustmentEntries(player, adj) ==
    IF player \notin DOMAIN adj THEN <<>>
    ELSE IF adj[player] > 0
         THEN <<LedgerEntry(AdjustDate, <<adj[player]>>, Blank, Blank,
                            "Initial balance adjustment")>>
         ELSE <<LedgerEntry(AdjustDate, Blank, <<Abs(adj[player])>>, Blank,
                            "Initial balance adjustment")>>

\* The documents of a find over games, in the order of their insertion.
RECURSIVE InOrder(_)
InOrder(gs) ==
    IF gs = {} THEN <<>>
    ELSE LET g == CHOOSE g \in gs : \A h \in gs : g.id <= h.id
         IN  <<g>> \o InOrder(gs \ {g})

\* One debit of "Cost of Game" / "Players" for each game the player played.
GameEntries(player, gs) ==
    LET played == InOrder(GamesPlayed(player, gs))
    IN  [i \in 1..Len(played) |->
            LedgerEntry(played[i].date, Blank,
                        <<played[i].cost \div played[i].players>>, Blank,
                        "Game")]

\* One entry for each payment document whose Player is exactly the player.
RECURSIVE PaymentEntries(_, _)
PaymentEntries(player, pays) ==
    IF pays = <<>> THEN <<>>
    ELSE LET x == Head(pays)
             rest == PaymentEntries(player, Tail(pays))
         IN  IF x.Player # player THEN rest
             ELSE IF x.Amount >= 0
                  THEN <<LedgerEntry(x.Date, <<x.Amount>>, Blank, Blank,
                                     x.Type)>> \o rest
                  ELSE <<LedgerEntry(x.Date, Blank, <<Abs(x.Amount)>>, Blank,
                                     x.Type)>> \o rest

\* sorted(ledger, key=date): a stable sort, entries of one date keep the
\* order they have in the list.
RECURSIVE SortAscending(_)
SortAscending(s) ==
    IF s = <<>> THEN <<>>
    ELSE LET body == SortAscending(SubSeq(s, 1, Len(s) - 1))
             e    == s[Len(s)]
             k    == Cardinality({i \in 1..Len(body) : body[i].date <= e.date})
         IN  SubSeq(body, 1, k) \o <<e>> \o SubSeq(body, k + 1, Len(body))

\* A variant of the final sort that returns the list as it was walked.
SortDescendingNot(s) == s

\* sorted(sorted_ledger, key=date, reverse=True): stable too, entries of one
\* date keep the order they have in the list.
RECURSIVE SortDescending(_)
SortDescending(s) ==
    IF s = <<>> THEN <<>>
    ELSE LET body == SortDescending(SubSeq(s, 1, Len(s) - 1))
             e    == s[Len(s)]
             k    == Cardinality({i \in 1..Len(body) : body[i].date >= e.date})
         IN  SubSeq(body, 1, k) \o <<e>> \o SubSeq(body, k + 1, Len(body))

\* A variant of the walk whose balance adds up the credits only.
RECURSIVE WalkCreditsOnly(_, _)
WalkCreditsOnly(s, rolling_balance) ==
    IF s = <<>> THEN <<>>
    ELSE LET record == Head(s)
             credit == IF record.credit = Blank THEN 0 ELSE record.credit[1]
             debit  == IF record.debit = Blank THEN 0 ELSE record.debit[1]
             rolled == rolling_balance + credit
         IN  <<[record EXCEPT
                  !.credit  = IF @ = Blank THEN @ ELSE <<Round2(credit)>>,
                  !.debit   = IF @ = Blank THEN @ ELSE <<Round2(debit)>>,
                  !.balance = <<Round2(rolled)>>]>>
             \o WalkCreditsOnly(Tail(s), rolled)

\* The walk over sorted_ledger: credit and debit are rounded for
\* presentation, the balance is the rounded rolling balance, and the
\* rolling balance itself is not rounded.
RECURSIVE Walk(_, _)
Walk(s, rolling_balance) ==
    IF s = <<>> THEN <<>>
    ELSE LET record == Head(s)
             credit == IF record.credit = Blank THEN 0 ELSE record.credit[1]
             debit  == IF record.debit = Blank THEN 0 ELSE record.debit[1]
             rolled == rolling_balance + credit - debit
         IN  <<[record EXCEPT
                  !.credit  = IF @ = Blank THEN @ ELSE <<Round2(credit)>>,
                  !.debit   = IF @ = Blank THEN @ ELSE <<Round2(debit)>>,
                  !.balance = <<Round2(rolled)>>]>>
             \o Walk(Tail(s), rolled)

\* The entry shown when the player has no activity.
Placeholder == LedgerEntry(Epoch, Blank, Blank, <<0>>, "Initial Balance")

CalcLedger(player, gs, pays, adj) ==
    LET built  == AdjustmentEntries(player, adj) \o GameEntries(player, gs)
                      \o PaymentEntries(player, pays)
        sorted == SortAscending(built)
        walked == IF sorted = <<>> THEN <<Placeholder>> ELSE Walk(sorted, 0)
    IN  [player |-> player, sorted |-> sorted, walked |-> walked,
         entries |-> SortDescending(walked)]

\* calc_ledger_for_player(player_name): reads the store, writes nothing.
CalcLedgerForPlayer(player_name) ==
    /\ ledger' = CalcLedger(player_name, games, payments, adjustments)
    /\ UNCHANGED <<games, payments, adjustments, teamSummary, teamPlayers,
                   nextId, ops, last, payGame, pending, racing>>

(***************************************************************************)
(* The ledger over imported tenancies: every combination of the sheets     *)
(* below, as populate_games, populate_payments and populate_adjustments    *)
(* store them.                                                             *)
(***************************************************************************)
SheetGame(id, date, cost, marks, guests) ==
    [id         |-> id,
     date       |-> date,
     cost       |-> cost,
     players    |-> Cardinality({n \in Names : marks[n] # ""})
                        + SumOver(Names, guests),
     costEach   |-> cost,
     booker     |-> None,
     marks      |-> marks,
     guests     |-> guests,
     playerList |-> <<>>,
     cffa       |-> "imported"]

SheetGames ==
    { SheetGame(1, 2, 20 * Unit,
                [n \in Names |-> IF n \in {"Al", "Bo"} THEN "Win" ELSE ""],
                NoGuests),
      SheetGame(2, 1, 20 * Unit,
                [n \in Names |-> IF n = "Al" THEN "lose" ELSE ""],
                [n \in Names |-> IF n = "Al" THEN 2 ELSE 0]),
      SheetGame(3, 2, 20 * Unit,
                [n \in Names |-> IF n \in {"Al", "Bo"} THEN "Draw" ELSE ""],
                [n \in Names |-> IF n = "Bo" THEN 1 ELSE 0]) }

SheetPayments ==
    { <<>>,
      <<[Player |-> "Al", Type |-> "Payment", Amount |-> 15 * Unit,
         Date |-> Today]>>,
      <<[Player |-> "Al", Type |-> "Booking Credit", Amount |-> 20 * Unit,
         Date |-> 1],
        [Player |-> "Al", Type |-> "Payment", Amount |-> 0 - 5 * Unit,
         Date |-> 2]>>,
      <<[Player |-> "al", Type |-> "Payment", Amount |-> 15 * Unit,
         Date |-> 2],
        [Player |-> "Al", Type |-> "Booking Credit", Amount |-> 20 * Unit,
         Date |-> 1],
        [Player |-> "Bo", Type |-> "Payment", Amount |-> 15 * Unit,
         Date |-> Today]>> }

SheetAdjustments ==
    { NoAdjustments,
      [n \in {"Al"} |-> 10 * Unit],
      [n \in {"Al"} |-> 0 - 10 * Unit],
      [n \in {"Bo"} |-> 0] }

LedgerInit ==
    /\ games \in SUBSET SheetGames
    /\ payments \in SheetPayments
    /\ adjustments \in SheetAdjustments
    /\ teamPlayers = ImportedPlayers
    /\ teamSummary = CalcTeam(ImportedPlayers, games, payments, adjustments)
    /\ nextId = 4
    /\ payGame = [i \in 1..Len(payments) |-> NoGame]
    /\ ops = 0
    /\ last = NoCall
    /\ ledger = NoLedger
    /\ pending = NoRecalc
    /\ racing = NoRace

LedgerNext == \E player_name \in Names : CalcLedgerForPlayer(player_name)

LedgerSpec == LedgerInit /\ [][LedgerNext]_vars

(***************************************************************************)
(* calc_populate_team_summary(players) step by step: the drop of           *)
(* teamSummary, then insert_many of the team list, which a store error can *)
(* prevent.  The list passed in holds the names of teamSummary, as         *)
(* edit_game and delete_game pass it.                                      *)
(***************************************************************************)
Idle == pending.pc = "idle"

\* A variant of the first step that leaves teamSummary in place.
RecalcKeep ==
    LET players == SummaryNames(teamSummary)
    IN  /\ Idle
        /\ Counted
        /\ teamSummary' = teamSummary
        /\ pending' = [pc |-> "dropped", players |-> players,
                       team |-> CalcTeam(players, games, payments, adjustments)]
        /\ Called("calc", 0, "dropped", NoForm)
        /\ UNCHANGED <<games, payments, adjustments, teamPlayers, nextId,
                       payGame, ledger, racing>>

\* self.teamSummary.drop() and the loop that builds team.
RecalcDrop ==
    LET players == SummaryNames(teamSummary)
    IN  /\ Idle
        /\ Counted
        /\ teamSummary' = <<>>
        /\ pending' = [pc |-> "dropped", players |-> players,
                       team |-> CalcTeam(players, games, payments, adjustments)]
        /\ Called("calc", 0, "dropped", NoForm)
        /\ UNCHANGED <<games, payments, adjustments, teamPlayers, nextId,
                       payGame, ledger, racing>>

\* self.teamSummary.insert_many(team), which raises on an empty list.
RecalcInsert ==
    /\ pending.pc = "dropped"
    /\ teamSummary' = teamSummary \o pending.team
    /\ last' = [last EXCEPT !.ret = IF CalcRaises(pending.players)
                                    THEN "raise" ELSE "None"]
    /\ pending' = NoRecalc
    /\ UNCHANGED <<games, payments, adjustments, teamPlayers, nextId, ops,
                   payGame, ledger, racing>>

\* insert_many fails in the store: nothing is inserted.
RecalcInsertFails ==
    /\ pending.pc = "dropped"
    /\ last' = [last EXCEPT !.ret = "store error"]
    /\ pending' = NoRecalc
    /\ UNCHANGED <<games, payments, adjustments, teamSummary, teamPlayers,
                   nextId, ops, payGame, ledger, racing>>

RebuildNext ==
    \/ RecalcDrop
    \/ RecalcInsert
    \/ RecalcInsertFails
    \/ Idle /\ \E form \in Forms : AddGame(form)
    \/ Idle /\ \E id \in GameIds : DeleteGame(id)
    \/ Idle /\ \E p \in Names, a \in TxnAmounts : AddTransaction(p, a, Today)

RebuildSpec == Init /\ [][RebuildNext]_vars

(***************************************************************************)
(* Two requests at once.  Each makes one edit_game or delete_game call;    *)
(* the calls interleave between their statements on the store.  A call     *)
(* takes four steps: everything before the read of the names of            *)
(* teamSummary; that read; the drop of teamSummary with the loop that      *)
(* builds team; insert_many.                                               *)
(***************************************************************************)
\* edit_game up to the read of the names: what it leaves in the store, and
\* ret "" when it goes on to calc_populate_team_summary.
EditHead(id, form) ==
    IF ~(\E g \in games : g.id = id)
    THEN [games |-> games, pay |-> payments, ts |-> teamSummary,
          tp |-> teamPlayers, ret |-> "raise"]
    ELSE LET g   == CHOOSE x \in games : x.id = id
             st  == EditEnsureLoop(Store, form.playerlist)
             new == EditedGameRecord(g, form)
             pay1 == IF EditCompensates(g, form)
                     THEN Append(st.pay, EditRemovePayment(g)) ELSE st.pay
             pay2 == IF EditCompensates(g, form)
                     THEN Append(pay1, EditAddPayment(form)) ELSE pay1
         IN  IF st.ret = "False"
             THEN [games |-> games, pay |-> payments, ts |-> st.ts,
                   tp |-> st.tp, ret |-> "False"]
             ELSE IF FormUnits(form) = 0
             THEN [games |-> games, pay |-> payments, ts |-> st.ts,
                   tp |-> st.tp, ret |-> "raise"]
             ELSE IF EditCompensates(g, form) /\ ~HasBookerKey(g)
             THEN [games |-> (games \ {g}) \cup {new}, pay |-> pay1,
                   ts |-> st.ts, tp |-> st.tp, ret |-> "raise"]
             ELSE [games |-> (games \ {g}) \cup {new}, pay |-> pay2,
                   ts |-> st.ts, tp |-> st.tp, ret |-> ""]

\* delete_game up to the read of the names.
DeleteHead(id) ==
    IF ~(\E g \in games : g.id = id)
    THEN [games |-> games, pay |-> payments, ts |-> teamSummary,
          tp |-> teamPlayers, ret |-> "raise"]
    ELSE LET g == CHOOSE x \in games : x.id = id
         IN  [games |-> games \ {g}, pay |-> Append(payments, DeletePayment(g)),
              ts |-> teamSummary, tp |-> teamPlayers, ret |-> ""]

\* Request p makes its call and gets as far as the read of the names.
RaceBegin(p, op, id, head) ==
    /\ racing.call[p].pc = "idle"
    /\ Counted
    /\ games' = head.games
    /\ payments' = head.pay
    /\ payGame' = PaidFor(id, head.pay)
    /\ teamSummary' = head.ts
    /\ teamPlayers' = head.tp
    /\ racing' =
          [before |-> IF \A q \in Procs : racing.call[q].pc = "idle"
                      THEN SummaryNames(teamSummary) ELSE racing.before,
           call |-> [racing.call EXCEPT ![p] =
                       [pc |-> IF head.ret = "" THEN "head" ELSE "done",
                        op |-> op,
                        players |-> <<>>,
                        team |-> <<>>,
                        ret |-> head.ret]]]
    /\ UNCHANGED <<adjustments, nextId, last, ledger, pending>>

RaceEdit(p, id, form) == RaceBegin(p, "edit_game", id, EditHead(id, form))

RaceDelete(p, id) == RaceBegin(p, "delete_game", id, DeleteHead(id))

\* player_list of request p: the playerName of every teamSummary document.
RaceRead(p) ==
    /\ racing.call[p].pc = "head"
    /\ racing' = [racing EXCEPT !.call[p].pc = "read",
                                !.call[p].players = SummaryNames(teamSummary)]
    /\ UNCHANGED <<games, payments, adjustments, teamSummary, teamPlayers,
                   nextId, ops, last, payGame, ledger, pending>>

\* self.teamSummary.drop() and the loop that builds team, of request p.
RaceDrop(p) ==
    /\ racing.call[p].pc = "read"
    /\ teamSummary' = <<>>
    /\ racing' = [racing EXCEPT
                    !.call[p].pc = "dropped",
                    !.call[p].team = CalcTeam(racing.call[p].players, games,
                                              payments, adjustments)]
    /\ UNCHANGED <<games, payments, adjustments, teamPlayers, nextId, ops,
                   last, payGame, ledger, pending>>

\* self.teamSummary.insert_many(team) of request p, which raises on an empty
\* list, and the return of the call.
RaceInsert(p) ==
    /\ racing.call[p].pc = "dropped"
    /\ teamSummary' = teamSummary \o racing.call[p].team
    /\ racing' = [racing EXCEPT
                    !.call[p].pc = "done",
                    !.call[p].ret = IF CalcRaises(racing.call[p].players)
                                    THEN "raise" ELSE "returned"]
    /\ UNCHANGED <<games, payments, adjustments, teamPlayers, nextId, ops,
                   last, payGame, ledger, pending>>

RaceNext ==
    \/ \E p \in Procs, id \in GameIds : \E form \in FormsFor(id) :
          RaceEdit(p, id, form)
    \/ \E p \in Procs, id \in GameIds : RaceDelete(p, id)
    \/ \E p \in Procs : RaceRead(p)
    \/ \E p \in Procs : RaceDrop(p)
    \/ \E p \in Procs : RaceInsert(p)

RaceSpec == Init /\ [][RaceNext]_vars

(***************************************************************************)
(* Properties.                                                             *)
(***************************************************************************)
\* The last call recomputed teamSummary: calc_populate_team_summary itself,
\* or an edit_game or delete_game that ran to its end.
Recalculated ==
    \/ last.op = "calc" /\ last.ret = "None"
    \/ last.op = "edit_game" /\ last.ret = "True"
    \/ last.op = "delete_game" /\ last.ret # "raise"

Rows == {teamSummary[i] : i \in 1..Len(teamSummary)}

\* The player's Adjustments amount, 0 when the player has none.
StoredAdjustment(name) ==
    IF name \in DOMAIN adjustments THEN adjustments[name] ELSE 0

ChargedUnits(g, name) ==
    (IF g.marks[name] \in {"Win", "Lose", "Draw", "No Show",
                           "win", "lose", "draw", "no show"} THEN 1 ELSE 0)
    + g.guests[name]

\* C2: after a recalculation gamesCost of every row is the sum, over the
\* stored games, of Cost of Game / Players for each game the player has an
\* attendance marker in, plus Cost of Game / Players times the guest count
\* for each game the player hosts guests in, attended or not.
C2_GamesCostIsSumOfUnits ==
    Recalculated =>
        \A r \in Rows :
            r.gamesCost =
                SumOver(games, [g \in games |->
                                   (g.cost \div g.players) * ChargedUnits(g, r.playerName)])

\* A recalculated row charged for a game its player hosted guests in
\* without attending.
C2_Witness ==
    /\ Recalculated
    /\ \E r \in Rows : \E g \in games :
           /\ g.guests[r.playerName] > 0
           /\ g.marks[r.playerName] = ""
           /\ r.gamesCost >= g.guests[r.playerName] * (g.cost \div g.players)
           /\ r.gamesCost > 0

\* The payments whose Player is exactly name.
PaymentsTo(name) == {i \in 1..Len(payments) : payments[i].Player = name}

\* C3: after a recalculation moniesPaid of every row is the sum of Amount
\* over the Payments whose Player is that row's player, 0 when there is
\* none.
C3_MoniesPaidIsSumOfPayments ==
    Recalculated =>
        \A r \in Rows :
            r.moniespaid =
                SumOver(PaymentsTo(r.playerName),
                        [i \in PaymentsTo(r.playerName) |-> payments[i].Amount])

\* C4: a recalculation over the names of a teamSummary that was just
\* recalculated, with no write in between, leaves teamSummary as it was.
C4_RecalcIdempotent ==
    [][(Recalculated /\ CalcPopulateTeamSummary) => teamSummary' = teamSummary]_vars

\* A second recalculation in a row, over rows that carry costs.
C4_Witness ==
    /\ last.op = "calc" /\ last.ret = "None"
    /\ ops = 2
    /\ last.ts = Resync(last.ts, last.games, last.pay, adjustments)
    /\ teamSummary = last.ts
    /\ \E r \in Rows : r.gamesCost > 0 /\ r.moniespaid > 0

\* The last call was a delete_game that found its game.
DeleteFound ==
    last.op = "delete_game" /\ \E g \in last.games : g.id = last.id

\* The last call was an edit_game that found its game and got past the
\* player loop and the division by the attendance units.
EditRan ==
    /\ last.op = "edit_game"
    /\ \E g \in last.games : g.id = last.id
    /\ last.ret # "False"
    /\ FormUnits(last.form) > 0

\* The game the last call was given, as the call found it.
GameBefore == CHOOSE g \in last.games : g.id = last.id

\* A game has a booker when its Booker is present and not empty.
HasBooker(g) == g.booker # None /\ g.booker # ""

\* The payments the last call inserted.
Inserted == SubSeq(payments, Len(last.pay) + 1, Len(payments))

\* The payments pays without those that the calls for game id inserted;
\* pg is payGame for pays.
RECURSIVE Without(_, _, _)
Without(pays, pg, id) ==
    IF pays = <<>> THEN <<>>
    ELSE (IF Head(pg) = id THEN <<>> ELSE <<Head(pays)>>)
         \o Without(Tail(pays), Tail(pg), id)

\* C5: after delete_game of a game that add_game created with a booker,
\* every summary row holds the values a recalculation would give had the
\* game never been created: the stored games without it and the payments
\* without its booking credit and its reversal.
C5_DeleteRestoresSummary ==
    (DeleteFound /\ HasBooker(GameBefore) /\ GameBefore.cffa = "submitted") =>
        teamSummary = CalcTeam(SummaryNames(teamSummary), games,
                               Without(payments, payGame, last.id), adjustments)

\* C6: delete_game of a game with a booker inserts exactly one payment, of
\* minus the game's cost to the booker, removes exactly that game and
\* leaves every earlier payment as it was.
C6_DeleteReversesCredit ==
    (DeleteFound /\ HasBooker(GameBefore)) =>
        /\ Len(payments) = Len(last.pay) + 1
        /\ SubSeq(payments, 1, Len(last.pay)) = last.pay
        /\ payments[Len(payments)].Amount = 0 - GameBefore.cost
        /\ payments[Len(payments)].Player = GameBefore.booker
        /\ games = last.games \ {GameBefore}

\* A game with a booker deleted from a store holding another game and
\* earlier payments.
C6_Witness ==
    /\ DeleteFound
    /\ HasBooker(GameBefore)
    /\ Cardinality(last.games) >= 2
    /\ Len(last.pay) >= 2
    /\ GameBefore.cost > 0

\* C7: delete_game of a game with no booker, the Booker empty or absent,
\* inserts one payment only, of amount 0 and marked as having no booker
\* set.
C7_DeleteWithoutBooker ==
    (DeleteFound /\ ~HasBooker(GameBefore)) =>
        /\ Len(Inserted) = 1
        /\ Inserted[1].Amount = 0
        /\ Inserted[1].Type = "CFFA Game Deletion - no booker set"

\* C8: edit_game inserts compensating payments exactly when the booker or
\* the cost changed: then two, minus the original cost to the original
\* booker and the new cost to the new booker; otherwise none.
C8_EditCompensation ==
    EditRan =>
        IF GameBefore.booker # last.form.booker \/ GameBefore.cost # last.form.gamecost
        THEN /\ Len(Inserted) = 2
             /\ Inserted[1].Amount = 0 - GameBefore.cost
             /\ Inserted[1].Player = GameBefore.booker
             /\ Inserted[2].Amount = last.form.gamecost
             /\ Inserted[2].Player = last.form.booker
        ELSE Inserted = <<>>

\* The form lists the name with the played box ticked.
Ticked(form, name) ==
    \E i \in 1..Len(form.playerlist) :
        form.playerlist[i].playername = name /\ form.playerlist[i].playedlastgame

\* The form lists the name.
Listed(form, name) ==
    \E i \in 1..Len(form.playerlist) : form.playerlist[i].playername = name

\* C9: after edit_game the stored game holds an attendance marker for a
\* player exactly when the new player list ticks that player as having
\* played; markers of unticked and of unlisted players are gone.
C9_MarkersFollowForm ==
    EditRan =>
        \A g \in games : g.id = last.id =>
            \A n \in Names : g.marks[n] # "" <=> Ticked(last.form, n)

\* An edit that returned True, of a game holding a marker of a player the
\* form does not list and one of a player the form lists unticked.
C9_Witness ==
    /\ EditRan
    /\ last.ret = "True"
    /\ \E n \in Names : GameBefore.marks[n] # "" /\ ~Listed(last.form, n)
    /\ \E n \in Names : Ticked(last.form, n)

\* C10: when edit_game or delete_game runs to its end, teamSummary holds,
\* for every player that had a row before and for every player the call
\* created, the row a fresh recalculation over the store would produce.
C10_SummaryIsFreshRecalc ==
    (\/ last.op = "edit_game" /\ last.ret = "True"
     \/ last.op = "delete_game" /\ last.ret # "raise") =>
        /\ teamSummary = CalcTeam(SummaryNames(teamSummary), games, payments,
                                  adjustments)
        /\ Len(teamSummary) >= Len(last.ts)
        /\ \A i \in 1..Len(teamSummary) :
               IF i <= Len(last.ts)
               THEN teamSummary[i].playerName = last.ts[i].playerName
               ELSE Listed(last.form, teamSummary[i].playerName)

\* An edit that returned True, created a player and changed the row of a
\* player who had one.
C10_Witness ==
    /\ last.op = "edit_game" /\ last.ret = "True"
    /\ Len(teamSummary) > Len(last.ts)
    /\ \E i \in 1..Len(last.ts) : teamSummary[i] # last.ts[i]

\* The last call was an add_game that ran to its end.
AddRan == last.op = "add_game" /\ last.ret = "True"

\* The stored game the last call wrote.
GameAfter == CHOOSE g \in games : g.id = last.id

\* What one playerlist entry of a game owes or is owed: minus a unit when
\* played, the whole cost when the booker, minus a unit per guest.
EntryEffect(e, cost, unitCost) ==
    (IF e.playedlastgame THEN 0 - unitCost ELSE 0)
    + (IF e.pitchbooker THEN cost ELSE 0)
    - unitCost * e.guests

\* The sum of the effects of the form's entries for the name.
FormEffect(form, name, unitCost) ==
    SeqSum([i \in 1..Len(form.playerlist) |->
               IF form.playerlist[i].playername = name
               THEN EntryEffect(form.playerlist[i], form.gamecost, unitCost)
               ELSE 0])

C12_BookerMatchesCredit ==
    AddRan =>
        IF GameAfter.booker # ""
        THEN /\ Len(Inserted) = 1
             /\ Inserted[1].Type = "CFFA Booking Credit"
             /\ Inserted[1].Player = GameAfter.booker
             /\ Inserted[1].Amount = GameAfter.cost
             /\ Inserted[1].Date = GameAfter.date
        ELSE Inserted = <<>>

\* The last call was an add_game or an edit_game of a stored game with a
\* form of no attendance unit: nobody ticked and no guest.
ZeroUnitCall ==
    /\ \/ last.op = "add_game"
       \/ last.op = "edit_game" /\ \E g \in last.games : g.id = last.id
    /\ last.form # NoForm
    /\ FormUnits(last.form) = 0

\* C13: add_game and edit_game reject a form of no attendance unit before
\* any write: the call fails and Games, Payments, teamPlayers and
\* teamSummary are as the call found them.
C13_ZeroUnitsRejected ==
    ZeroUnitCall =>
        /\ last.ret = "raise"
        /\ games = last.games
        /\ payments = last.pay
        /\ teamSummary = last.ts
        /\ teamPlayers = last.tp

\* C14: every game document add_game or edit_game stored has Players equal
\* to the number of attendance markers in it plus the sum of its
\* <name>_guests values, and Players above 0 - also after an edit whose
\* form no longer lists a player who attended or hosted guests.
C14_PlayersCountsUnits ==
    \A g \in games :
        g.cffa \in {"submitted", "edited"} =>
            /\ g.players = Cardinality({n \in Names : g.marks[n] # ""})
                             + SumOver(Names, g.guests)
            /\ g.players > 0

(***************************************************************************)
(* The ledger.                                                             *)
(***************************************************************************)
\* calc_ledger_for_player has returned a ledger.
LedgerBuilt == ledger.player # ""

Credit(e) == IF e.credit = Blank THEN 0 ELSE e.credit[1]
Debit(e) == IF e.debit = Blank THEN 0 ELSE e.debit[1]

\* The sum of credits minus the sum of debits of the first i entries of s.
NetUpTo(s, i) == SeqSum([j \in 1..i |-> Credit(s[j]) - Debit(s[j])])

\* The entry the claim gives a signed amount: a credit if positive (or not
\* negative, for a payment), a debit of the absolute value otherwise.
Counts(s, e) == Cardinality({i \in 1..Len(s) : s[i] = e})
AsCredit(date, amount, description) ==
    LedgerEntry(date, <<amount>>, Blank, Blank, description)
AsDebit(date, amount, description) ==
    LedgerEntry(date, Blank, <<amount>>, Blank, description)

AdjustmentsOf(P, e) ==
    IF /\ P \in DOMAIN adjustments
       /\ e = IF adjustments[P] > 0
              THEN AsCredit(AdjustDate, adjustments[P],
                            "Initial balance adjustment")
              ELSE AsDebit(AdjustDate, 0 - adjustments[P],
                           "Initial balance adjustment")
    THEN 1 ELSE 0

\* P attended g: g holds a result for P, in any spelling of its letters.
AttendedBy(g, P) ==
    g.marks[P] \in {"Win", "Lose", "Draw", "No Show",
                    "win", "lose", "draw", "no show"}

GamesOf(P, e) ==
    Cardinality({g \in games :
                   /\ AttendedBy(g, P)
                   /\ e = AsDebit(g.date, g.cost \div g.players, "Game")})

PaymentsOf(P, e) ==
    Cardinality({i \in 1..Len(payments) :
                   /\ payments[i].Player = P
                   /\ e = IF payments[i].Amount >= 0
                          THEN AsCredit(payments[i].Date, payments[i].Amount,
                                        payments[i].Type)
                          ELSE AsDebit(payments[i].Date,
                                       0 - payments[i].Amount,
                                       payments[i].Type)})

\* The entries are the player's: one for the adjustment, one for each game
\* attended, one for each payment, and nothing else.
EntriesAreThePlayers ==
    LET P == ledger.player
        s == ledger.sorted
    IN  /\ \A i \in 1..Len(s) :
              Counts(s, s[i]) = AdjustmentsOf(P, s[i]) + GamesOf(P, s[i])
                                  + PaymentsOf(P, s[i])
        /\ Len(s) = (IF P \in DOMAIN adjustments THEN 1 ELSE 0)
                      + Cardinality({g \in games : AttendedBy(g, P)})
                      + Cardinality({i \in 1..Len(payments) :
                                        payments[i].Player = P})

\* The entries walked are the entries built, in ascending order of date,
\* with credit and debit shown to the hundredth.
Shown(amount) == IF amount = Blank THEN Blank ELSE <<Round2(amount[1])>>
WalkedAscending ==
    LET s == ledger.sorted
        w == ledger.walked
    IN  /\ \A i, j \in 1..Len(s) : i < j => s[i].date <= s[j].date
        /\ IF s = <<>> THEN w = <<Placeholder>>
           ELSE /\ Len(w) = Len(s)
                /\ \A i \in 1..Len(s) :
                      [w[i] EXCEPT !.balance = Blank]
                          = [s[i] EXCEPT !.credit = Shown(@),
                                         !.debit = Shown(@)]

\* The list returned holds the entries walked, latest date first.
ReturnedLatestFirst ==
    LET w == ledger.walked
        r == ledger.entries
    IN  /\ Len(r) = Len(w)
        /\ \A i \in 1..Len(w) : Counts(r, w[i]) = Counts(w, w[i])
        /\ \A i, j \in 1..Len(r) : i < j => r[i].date >= r[j].date

\* C15 as stated: the ledger of P holds one entry for P's adjustment, one
\* debit of the cost per unit for each game P attended and one entry for each
\* payment of P; in ascending order of date the balance of each entry is the
\* sum of the credits minus the sum of the debits of the entries up to and
\* including it; the list returned is in non-increasing order of date.
C15_BalanceIsNetOfEntries ==
    LedgerBuilt =>
        /\ EntriesAreThePlayers
        /\ WalkedAscending
        /\ ReturnedLatestFirst
        /\ \A i \in 1..Len(ledger.walked) :
              ledger.walked[i].balance = <<NetUpTo(ledger.walked, i)>>

\* C15 amended: as above, but the balance of each entry is the sum of the
\* credits minus the sum of the debits up to and including it, taken before
\* they are rounded for display, and then rounded to the hundredth; a player
\* with no entry gets one placeholder entry of balance 0.
C15_BalanceIsRoundedNet ==
    LedgerBuilt =>
        /\ EntriesAreThePlayers
        /\ WalkedAscending
        /\ ReturnedLatestFirst
        /\ \A i \in 1..Len(ledger.sorted) :
              ledger.walked[i].balance = <<Round2(NetUpTo(ledger.sorted, i))>>

\* A ledger with an adjustment, games and payments, in which a balance is not
\* the net of the amounts shown.
C15_Witness ==
    /\ LedgerBuilt
    /\ ledger.player \in DOMAIN adjustments
    /\ \E i \in 1..Len(ledger.walked) : ledger.walked[i].description = "Game"
    /\ \E i \in 1..Len(ledger.walked) : ledger.walked[i].credit # Blank
    /\ \E i \in 1..Len(ledger.walked) : ledger.walked[i].description = "Payment"
                                         /\ ledger.walked[i].debit # Blank
    /\ \E i \in 1..Len(ledger.walked) :
          ledger.walked[i].balance # <<NetUpTo(ledger.walked, i)>>

\* The round trip of the ledger: the player has an adjustment of +10, one
\* attended game of cost 20 split 2 ways on day 2 and one payment of +15 on
\* day 3, and the ledger is the player's.
RoundTrip ==
    LET P == ledger.player
        attended == {g \in games : AttendedBy(g, P)}
        paid == {i \in 1..Len(payments) : payments[i].Player = P}
    IN  /\ LedgerBuilt
        /\ P \in DOMAIN adjustments /\ adjustments[P] = 10 * Unit
        /\ Cardinality(attended) = 1
        /\ \A g \in attended :
              g.cost = 20 * Unit /\ g.players = 2 /\ g.date = 2
        /\ Cardinality(paid) = 1
        /\ \A i \in paid :
              payments[i].Amount = 15 * Unit /\ payments[i].Date = 3

\* What an entry shows: its date, credit, debit and balance.
Shows(e) == <<e.date, e.credit, e.debit, e.balance>>
Statement == [i \in 1..Len(ledger.entries) |-> Shows(ledger.entries[i])]

\* C16 as stated: the round trip returns, in this order, [day 3, credit 15,
\* balance 15], [day 2, debit 10, balance 5], [adjustment, credit 10,
\* balance 10].
C16_RoundTripAsStated ==
    RoundTrip =>
        Statement = << <<3, <<15 * Unit>>, Blank, <<15 * Unit>>>>,
                       <<2, Blank, <<10 * Unit>>, <<5 * Unit>>>>,
                       <<AdjustDate, <<10 * Unit>>, Blank, <<10 * Unit>>>> >>

\* C16 amended: the round trip returns, in this order, [day 3, credit 15,
\* balance 15], [day 2, debit 10, balance 0], [adjustment, credit 10,
\* balance 10].
C16_RoundTrip ==
    RoundTrip =>
        Statement = << <<3, <<15 * Unit>>, Blank, <<15 * Unit>>>>,
                       <<2, Blank, <<10 * Unit>>, <<0>>>>,
                       <<AdjustDate, <<10 * Unit>>, Blank, <<10 * Unit>>>> >>

\* The ledger of the round trip has been returned, with its three entries.
C16_Witness == RoundTrip /\ Len(ledger.entries) = 3

\* C17: the list returned is exactly the reverse of the ascending list that
\* was walked, also among entries of one date, so its first entry carries
\* the final running balance.
C17_ReturnedIsReverse ==
    LedgerBuilt =>
        LET w == ledger.walked
            r == ledger.entries
        IN  /\ Len(r) = Len(w)
            /\ \A i \in 1..Len(w) : r[i] = w[Len(w) + 1 - i]
            /\ r[1].balance = w[Len(w)].balance

(***************************************************************************)
(* The recalculation.                                                      *)
(***************************************************************************)
\* The stored games that hold an attendance marker of player P.
AttendedGames(P) == {g \in games : AttendedBy(g, P)}

\* C18: after a recalculation, gamesAttended of every row is the number of
\* stored games that hold an attendance marker of its player, and lastPlayed
\* is the latest date of those games, or 1970-01-01 - never null - when
\* there is none.
C18_AttendanceAndLastPlayed ==
    Recalculated =>
        \A r \in Rows :
            /\ r.gamesAttended = Cardinality(AttendedGames(r.playerName))
            /\ r.lastPlayed \in Dates \cup {Epoch}
            /\ IF AttendedGames(r.playerName) = {}
               THEN r.lastPlayed = Epoch
               ELSE /\ \E g \in AttendedGames(r.playerName) :
                          r.lastPlayed = g.date
                    /\ \A g \in AttendedGames(r.playerName) :
                          r.lastPlayed >= g.date

\* A recalculation that left a row of a player who attended no game and a
\* row of a player who attended games of different dates.
C18_Witness ==
    /\ Recalculated
    /\ \E r \in Rows : r.gamesAttended = 0 /\ r.lastPlayed = Epoch
    /\ \E r \in Rows : \E g \in AttendedGames(r.playerName) :
           r.gamesAttended >= 2 /\ g.date < r.lastPlayed

\* The rebuild that edit_game and delete_game perform has run to its end:
\* on its own, or as the end of a delete_game that found its game.
RebuildRan ==
    /\ Idle
    /\ \/ last.op = "calc" /\ last.ret \in {"None", "raise"}
       \/ DeleteFound

\* The players of the tenancy.
Players == {teamPlayers[i] : i \in 1..Len(teamPlayers)}

\* C19: whatever teamSummary holds - also nothing, after a rebuild that
\* failed between its drop and its insert_many - running the rebuild of
\* edit_game and delete_game again leaves one row for every player, each the
\* row computed from games, payments and adjustments.
C19_RebuildRestoresEveryPlayer ==
    RebuildRan =>
        /\ \A n \in Players :
              Cardinality({i \in 1..Len(teamSummary) :
                              teamSummary[i].playerName = n}) = 1
        /\ \A i \in 1..Len(teamSummary) :
              teamSummary[i] = SummaryRow(teamSummary[i].playerName, games,
                                          AggregatedPayments(payments),
                                          adjustments)

\* The players passed to the last calc_populate_team_summary call.
PassedIn == SummaryNames(last.ts)

\* C20: between the drop and insert_many, teamSummary holds no row although
\* players exist; when the recalculation completes without a store error,
\* teamSummary holds one row for each player passed in, in their order.
C20_DropThenBulkInsert ==
    /\ pending.pc = "dropped" => teamSummary = <<>> /\ last.op = "calc"
    /\ (Idle /\ last.op = "calc" /\ last.ret = "None") =>
           /\ SummaryNames(teamSummary) = PassedIn
           /\ PassedIn # <<>>

\* A recalculation between its drop and its insert_many: players exist,
\* rows for them were passed in, and teamSummary holds none.
C20_Witness ==
    /\ pending.pc = "dropped"
    /\ teamPlayers # <<>>
    /\ pending.players = teamPlayers
    /\ teamSummary = <<>>

(***************************************************************************)
(* Payments and players.                                                   *)
(***************************************************************************)
\* C21: a payment is immutable once written: no call changes a field of a
\* stored payment or removes one; the collection only grows.
C21_PaymentsImmutable ==
    [][/\ Len(payments') >= Len(payments)
       /\ \A i \in 1..Len(payments) : payments'[i] = payments[i]]_vars

\* The last call was an add_transaction naming a player without a row.
UnknownPayee ==
    /\ last.op = "add_transaction"
    /\ \A i \in 1..Len(last.ts) : last.ts[i].playerName # last.name

\* C22: add_transaction naming a player who does not exist is rejected
\* before any write: no payment is inserted, no row is created or changed,
\* no player is created, and a failure message is returned.
C22_UnknownPayeeRejected ==
    UnknownPayee =>
        /\ payments = last.pay
        /\ teamSummary = last.ts
        /\ teamPlayers = last.tp
        /\ games = last.games
        /\ last.ret = "does not exist"

\* A transaction for a name no row carries, although a row carries another
\* spelling of it.
C22_Witness ==
    /\ UnknownPayee
    /\ \E i \in 1..Len(last.ts) : Fold(last.ts[i].playerName) = Fold(last.name)

\* A row of teamSummary carries the name, in some spelling.
HasRow(name) ==
    \E i \in 1..Len(teamSummary) : Fold(teamSummary[i].playerName) = Fold(name)

\* The entries of the last form whose player has no row.
Missing ==
    {i \in 1..Len(last.form.playerlist) :
        /\ last.form.playerlist[i].playername # ""
        /\ ~HasRow(last.form.playerlist[i].playername)}

\* The last call was an add_game or edit_game that reached its loop over the
\* players and left one of them without a row: the fallback that creates an
\* unknown player did not succeed.
FallbackFailed ==
    /\ last.op \in {"add_game", "edit_game"}
    /\ last.ret # "raise"
    /\ Missing # {}

IsPrefix(s, t) == Len(s) <= Len(t) /\ \A i \in 1..Len(s) : t[i] = s[i]

\* C23: when the fallback fails for a player, add_game and edit_game report
\* failure and change no row of teamSummary for that player or for any later
\* player of the list; the rows are not recalculated; the game and the
\* payments the call had already written stay.
C23_FailedFallbackStops ==
    FallbackFailed =>
        LET pl == last.form.playerlist
            k  == CHOOSE i \in Missing : \A j \in Missing : i <= j
        IN  /\ last.ret = "False"
            /\ \A i \in k..Len(pl) : \A j \in 1..Len(teamSummary) :
                  Fold(teamSummary[j].playerName) = Fold(pl[i].playername) =>
                      j <= Len(last.ts) /\ teamSummary[j] = last.ts[j]
            /\ Len(teamSummary) >= Len(last.ts)
            /\ \A j \in 1..Len(last.ts) :
                  teamSummary[j].playerName = last.ts[j].playerName
            /\ IsPrefix(last.pay, payments)
            /\ IF last.op = "add_game"
               THEN /\ \E g \in games : g.id = last.id
                    /\ last.games \subseteq games
               ELSE /\ games = last.games
                    /\ IsPrefix(last.ts, teamSummary)

\* An edit_game whose fallback failed after it had created an earlier player
\* of its form, for a game that an add_game whose fallback failed had left
\* in place.
C23_Witness ==
    /\ FallbackFailed
    /\ last.op = "edit_game"
    /\ Len(teamSummary) > Len(last.ts)
    /\ \E g \in games : \E n \in Names : g.marks[n] # "" /\ ~HasRow(n)

\* The last call was an edit_game or delete_game for the id of no game.
NoSuchGame ==
    /\ last.op \in {"edit_game", "delete_game"}
    /\ \A g \in last.games : g.id # last.id

\* C24: edit_game or delete_game for the id of no stored game returns a
\* result instead of raising, and leaves games, payments and teamSummary as
\* they were.
C24_NoSuchGameIsReported ==
    NoSuchGame =>
        /\ last.ret # "raise"
        /\ games = last.games
        /\ payments = last.pay
        /\ teamSummary = last.ts

\* C25: a player's name is unique: no two rows of teamSummary and no two
\* documents of teamPlayers carry the same name, and add_player with a name
\* a row carries writes nothing and says that the player already exists.
C25_NamesUnique ==
    /\ \A i, j \in 1..Len(teamSummary) :
          teamSummary[i].playerName = teamSummary[j].playerName => i = j
    /\ \A i, j \in 1..Len(teamPlayers) : teamPlayers[i] = teamPlayers[j] => i = j
    /\ (/\ last.op = "add_player"
        /\ \E i \in 1..Len(last.ts) : last.ts[i].playerName = last.name) =>
           /\ teamSummary = last.ts
           /\ teamPlayers = last.tp
           /\ last.ret = "already exists"

\* The summary the last call found was the full recomputation of the store
\* it found.
FreshBefore ==
    last.ts = CalcTeam(SummaryNames(last.ts), last.games, last.pay,
                       adjustments)

\* C26: when add_game starts from a teamSummary that equals the full
\* recomputation of the store and runs to its end, the teamSummary it leaves
\* equals what calc_populate_team_summary would compute from the resulting
\* games, payments and adjustments for the same players: gamesCost,
\* moniespaid, balance, gamesAttended and lastPlayed of every row coincide.
C26_AddGameKeepsSummaryFresh ==
    (AddRan /\ FreshBefore) =>
        teamSummary = CalcTeam(SummaryNames(teamSummary), games, payments,
                               adjustments)

\* The balance of the last entry of the ledger in ascending order of date.
FinalBalance == ledger.walked[Len(ledger.walked)].balance

\* C27: the final running balance of the ledger calc_ledger_for_player
\* builds for a player equals the balance calc_populate_team_summary stores
\* for that player from the same games, payments and adjustments, also when
\* the player hosted guests in some game.
C27_LedgerAgreesWithSummary ==
    LedgerBuilt =>
        \A i \in 1..Len(teamSummary) :
            teamSummary[i].playerName = ledger.player =>
                FinalBalance = <<teamSummary[i].balance>>

\* The sum of the amounts of the payments that the calls for game id
\* inserted, over all of them and over those of one Player.
GameMoney(id) ==
    SeqSum([i \in 1..Len(payments) |->
               IF payGame[i] = id THEN payments[i].Amount ELSE 0])

GameMoneyOf(id, player) ==
    SeqSum([i \in 1..Len(payments) |->
               IF payGame[i] = id /\ payments[i].Player = player
               THEN payments[i].Amount ELSE 0])

Payees == {payments[i].Player : i \in 1..Len(payments)}

\* C28: when delete_game removes a game that add_game created, whatever
\* edit_game did to its cost and booker in between, the payments that the
\* calls for the game inserted sum to zero for every player and in total:
\* the sum of each player's payments, and of all payments, is what it was
\* before the game was created.
C28_BookingMoneyNetsToZero ==
    (DeleteFound /\ GameBefore.cffa = "submitted") =>
        /\ GameMoney(last.id) = 0
        /\ \A player \in Payees : GameMoneyOf(last.id, player) = 0

\* The last call was an edit_player that changed the name of a player with
\* a teamSummary row.
Renamed ==
    /\ last.op = "edit_player"
    /\ last.name # last.to
    /\ \E i \in 1..Len(last.ts) : last.ts[i].playerName = last.name

\* Some document of the store refers to the name.
RefersTo(name) ==
    \/ \E g \in games :
          \/ g.marks[name] # ""
          \/ g.guests[name] > 0
          \/ \E i \in 1..Len(g.playerList) : g.playerList[i].name = name
          \/ g.booker = name
    \/ \E i \in 1..Len(teamSummary) : teamSummary[i].playerName = name
    \/ \E i \in 1..Len(teamPlayers) : teamPlayers[i] = name
    \/ \E i \in 1..Len(payments) : payments[i].Player = name
    \/ name \in DOMAIN adjustments

\* C29: after edit_player changed a player's name, no document of games (attendance
\* key, guests key, PlayerList, Booker), teamSummary, teamPlayers, payments
\* or adjustments refers to the old name, and a recalculation gives the new
\* name the gamesCost, moniespaid and balance it gave the old name before
\* the call.
C29_RenameReachesEveryCollection ==
    Renamed =>
        /\ ~RefersTo(last.name)
        /\ LET before == SummaryRow(last.name, last.games,
                                    AggregatedPayments(last.pay), adjustments)
               after  == SummaryRow(last.to, games,
                                    AggregatedPayments(payments), adjustments)
           IN  /\ after.gamesCost = before.gamesCost
               /\ after.moniespaid = before.moniespaid
               /\ after.balance = before.balance

\* Both requests made their call and both calls returned.
BothReturned == \A p \in Procs : racing.call[p].ret = "returned"

\* C30: once the edit_game or delete_game calls of two concurrent requests
\* have both returned, every player that had a teamSummary row before the
\* first of them began still has one, however the calls interleaved.
C30_RaceKeepsEveryPlayer ==
    BothReturned =>
        \A i \in 1..Len(racing.before) : HasRow(racing.before[i])

====
